---- MODULE Spec2Model ----
(***************************************************************************)
(* Model of the two bulk-transfer programs of the repository:              *)
(*   s3_dowload_files/download.py        (S3DirectoryDownloader, main)     *)
(*   s3_folder_copier/s3_folder_copier.py (S3FolderCopier, main)           *)
(* One state machine covers both; `mode` selects the program that runs.    *)
(* Strings are sequences of one-character strings.                         *)
(***************************************************************************)
EXTENDS Integers, Sequences, FiniteSets, TLC

(* ------------------------------ bounds --------------------------------- *)
\* largest --max-workers value explored
MaxWorkers == 2
\* keys returned per list_objects_v2 page (stands for the store's page limit)
PageSize == 2
\* largest number of objects in the bucket when the run starts
MaxObjects == 3
\* longest key the store accepts (stands for the store's key-length limit)
MaxKeyLen == 5
\* changes other clients make to the bucket while the run is in progress
MaxExternalOps == 1
\* longest address body (what follows s3://) given to _parse_s3_path on its own
MaxAddrLen == 4

(* ------------------------------ strings -------------------------------- *)
Slash == "/"

S3Scheme == <<"s", "3", ":", "/", "/">>

\* str.startswith
StartsWith(s, p) == Len(p) <= Len(s) /\ SubSeq(s, 1, Len(p)) = p

\* str.endswith('/')
EndsWithSlash(s) == Len(s) > 0 /\ s[Len(s)] = Slash

\* s[n:]
DropFirst(s, n) == SubSeq(s, n + 1, Len(s))

\* index of the first '/' of s, 0 when there is none (str.split('/', 1))
FirstSlash(s) ==
    IF \E i \in 1..Len(s) : s[i] = Slash
    THEN CHOOSE i \in 1..Len(s) : s[i] = Slash /\ \A j \in 1..(i - 1) : s[j] # Slash
    ELSE 0

\* index of the last '/' of s, 0 when there is none (str.rfind('/') + 1)
LastSlash(s) ==
    IF \E i \in 1..Len(s) : s[i] = Slash
    THEN CHOOSE i \in 1..Len(s) : s[i] = Slash /\ \A j \in (i + 1)..Len(s) : s[j] # Slash
    ELSE 0

\* code point of a character, for the store's key order
Ord(c) ==
    CASE c = "/" -> 47
      [] c = "3" -> 51
      [] c = ":" -> 58
      [] c = "a" -> 97
      [] c = "b" -> 98
      [] c = "c" -> 99
      [] c = "f" -> 102
      [] c = "g" -> 103
      [] c = "o" -> 111
      [] c = "s" -> 115
      [] c = "t" -> 116
      [] c = "u" -> 117
      [] c = "x" -> 120
      [] c = "y" -> 121
      [] c = "z" -> 122

\* s < t in the store's (byte-wise lexicographic) key order
Less(s, t) ==
    \/ Len(s) < Len(t) /\ SubSeq(t, 1, Len(s)) = s
    \/ \E i \in 1..Len(s) :
          /\ i <= Len(t)
          /\ SubSeq(s, 1, i - 1) = SubSeq(t, 1, i - 1)
          /\ Ord(s[i]) < Ord(t[i])

(* --------------------------- _parse_s3_path ---------------------------- *)
\* the path with an optional leading s3:// removed
StripScheme(s3_path) ==
    IF StartsWith(s3_path, S3Scheme) THEN DropFirst(s3_path, 5) ELSE s3_path

\* mutant: the prefix is returned as split, without the final '/'
NormalizePrefix_Never(prefix) == prefix

\* "Ensure prefix ends with a / if it's not empty"
NormalizePrefix(prefix) ==
    IF prefix # <<>> /\ ~EndsWithSlash(prefix) THEN prefix \o <<Slash>> ELSE prefix

parse_s3_path(s3_path) ==
    LET p == StripScheme(s3_path)
        i == FirstSlash(p)
        bucket_name == IF i = 0 THEN p ELSE SubSeq(p, 1, i - 1)
        rest == IF i = 0 THEN <<>> ELSE DropFirst(p, i)
    IN [bucket_name |-> bucket_name, prefix |-> NormalizePrefix(rest)]

(* ------------------------ planning of one object ----------------------- *)
\* mutant: the prefix is not removed from the key
relative_path_WholeKey(prefix, key) == key

\* "Calculate relative path"
relative_path(prefix, key) ==
    IF prefix # <<>> THEN DropFirst(key, Len(prefix)) ELSE key

\* mutant: only an empty relative path is skipped, a key ending with '/' is not
DownloadSkips_OnlyEmpty(prefix, key) == relative_path(prefix, key) = <<>>

\* download: "Skip if it's a directory marker"
DownloadSkips(prefix, key) ==
    relative_path(prefix, key) = <<>> \/ EndsWithSlash(key)

\* copy: "Skip if it's a directory marker (object ending with /)"
CopySkips(key) == EndsWithSlash(key)

\* os.path.join(a, b) for POSIX paths
PathJoin(a, b) ==
    IF StartsWith(b, <<Slash>>) THEN b
    ELSE IF a = <<>> \/ EndsWithSlash(a) THEN a \o b
    ELSE a \o <<Slash>> \o b

\* strip trailing slashes, keeping a path made of slashes only
RECURSIVE RStripSlash(_)
RStripSlash(s) == IF EndsWithSlash(s) THEN RStripSlash(SubSeq(s, 1, Len(s) - 1)) ELSE s

\* os.path.dirname for POSIX paths
DirName(p) ==
    LET head == SubSeq(p, 1, LastSlash(p))
    IN IF \E i \in 1..Len(head) : head[i] # Slash THEN RStripSlash(head) ELSE head

\* the directories os.makedirs(d) walks: d and every ancestor of d
DirChain(d) ==
    {SubSeq(d, 1, i) : i \in {j \in 1..Len(d) : j = Len(d) \/ d[j + 1] = Slash}}
        \ {<<>>}

(* --------------------------- the object store -------------------------- *)
RECURSIVE SortKeys(_)
SortKeys(S) ==
    IF S = {} THEN <<>>
    ELSE LET m == CHOOSE x \in S : \A y \in S : x = y \/ Less(x, y)
         IN <<m>> \o SortKeys(S \ {m})

\* the keys a list_objects_v2 call under `prefix` still has to return after
\* the continuation token `after` (<<>>: from the start), in key order
Remaining(objects, prefix, after) ==
    SortKeys({k \in objects : StartsWith(k, prefix) /\ Less(after, k)})

\* one page of the paginator: Contents (absent when empty) and IsTruncated
ListPage(objects, prefix, after) ==
    LET rem == Remaining(objects, prefix, after)
        n == IF Len(rem) < PageSize THEN Len(rem) ELSE PageSize
    IN [Contents |-> SubSeq(rem, 1, n), IsTruncated |-> Len(rem) > PageSize]

(* ------------------------------- inputs -------------------------------- *)
\* command-line addresses
Arg_s3_x_a == <<"s", "3", ":", "/", "/", "x", "/", "a">>
Arg_x == <<"x">>
Arg_s3_x_b == <<"s", "3", ":", "/", "/", "x", "/", "b", "/">>
Arg_s3_y_b == <<"s", "3", ":", "/", "/", "y", "/", "b">>
Arg_x_a_z == <<"x", "/", "a", "/", "z">>
Arg_out == <<"/", "o", "u", "t">>

\* the command lines explored: <<program, first argument, second argument>>
Requests ==
    {<<"download", Arg_s3_x_a, Arg_out>>,
     <<"download", Arg_x, Arg_out>>,
     <<"copy", Arg_s3_x_a, Arg_s3_x_b>>,
     <<"copy", Arg_s3_x_a, Arg_s3_y_b>>,
     <<"copy", Arg_s3_x_a, Arg_x_a_z>>}

\* keys the bucket may hold when the run starts
Key_a == <<"a", "/">>
Key_a_f == <<"a", "/", "f">>
Key_a_g == <<"a", "/", "g">>
Key_a_f_g == <<"a", "/", "f", "/", "g">>
Key_a_s == <<"a", "/", "s", "/">>
Key_c == <<"c">>

KeyUniverse == {Key_a, Key_a_f, Key_a_g, Key_a_f_g, Key_a_s, Key_c}

\* keys other clients put or delete during the run
ExternalKeys == {Key_a_g}

\* what the fetch or copy call of the store client can do
Outcomes == {"ok", "ClientError", "OtherError"}

(* -------------------------------- state -------------------------------- *)
VARIABLES
    mode,               \* "download" or "copy": the program that runs
    s3_path,            \* first positional argument
    dest_arg,           \* second positional argument (local directory or dest address)
    max_workers,        \* --max-workers
    objects,            \* keys held by the source bucket
    local_dirs,         \* directories of the local filesystem
    local_files,        \* regular files of the local filesystem
    pc,                 \* position of the main thread
    prefix,             \* parsed source prefix
    dest_prefix,        \* parsed destination prefix (copy)
    page,               \* objects of the current page not yet processed
    after,              \* continuation token of the paginator
    truncated,          \* IsTruncated of the current page
    futures,            \* the futures list: one record per submitted unit
    joined,             \* futures whose result() the join loop has returned
    total_files,
    downloaded_files,
    download_errors,
    copied_files,
    copy_errors,
    lock,               \* holder of self.lock (index into futures), 0 when free
    exc,                \* exception propagating in the main thread
    no_objects_printed, \* "No objects found in ..." was printed
    summary,            \* what print_summary printed, <<>> before
    exit_code,          \* process exit code, -1 while running
    list_calls,         \* list_objects_v2 calls issued so far
    page_no,            \* pages the current listing pass has returned
    listed,             \* objects the listing calls have returned so far
    list_failed_at,     \* <<pass, page number>> of the listing call that failed
    external_ops,       \* changes other clients have made to the bucket
    bucket_name,        \* parsed source bucket
    initial_objects     \* keys the source bucket held when the run began

vars == <<mode, s3_path, dest_arg, max_workers, objects, local_dirs, local_files,
          pc, prefix, dest_prefix, bucket_name, page, after, truncated, futures, joined,
          total_files, downloaded_files, download_errors, copied_files, copy_errors,
          lock, exc, no_objects_printed, summary, exit_code, list_calls,
          page_no, listed, list_failed_at, external_ops, bucket_name,
          initial_objects>>

inputs == <<mode, s3_path, dest_arg, max_workers, external_ops, initial_objects>>
counters == <<total_files, downloaded_files, download_errors, copied_files, copy_errors>>
localfs == <<local_dirs, local_files>>
listing == <<page, after, truncated, page_no>>
output == <<no_objects_printed, summary, exit_code>>

Init ==
    /\ \E r \in Requests : mode = r[1] /\ s3_path = r[2] /\ dest_arg = r[3]
    /\ max_workers \in 1..MaxWorkers
    /\ objects \in {S \in SUBSET KeyUniverse : Cardinality(S) <= MaxObjects}
    /\ \E kind \in IF mode = "download" THEN {"absent", "dir", "file"} ELSE {"absent"} :
          /\ local_dirs = IF kind = "dir" THEN {Arg_out} ELSE {}
          /\ local_files = IF kind = "file" THEN {Arg_out} ELSE {}
    /\ pc = "main"
    /\ prefix = <<>>
    /\ dest_prefix = <<>>
    /\ page = <<>>
    /\ after = <<>>
    /\ truncated = FALSE
    /\ futures = <<>>
    /\ joined = 0
    /\ total_files = 0
    /\ downloaded_files = 0
    /\ download_errors = 0
    /\ copied_files = 0
    /\ copy_errors = 0
    /\ lock = 0
    /\ exc = "none"
    /\ no_objects_printed = FALSE
    /\ summary = <<>>
    /\ exit_code = -1
    /\ list_calls = 0
    /\ page_no = 0
    /\ listed = 0
    /\ list_failed_at = <<>>
    /\ external_ops = 0
    /\ bucket_name = <<>>
    /\ initial_objects = objects

(* ------------------------------ helpers -------------------------------- *)
\* a submitted call of download_file / copy_object: its arguments, where the
\* call is, what the store answered, the future's result, how many times a pool
\* thread took it off the queue and how many times it called the store, the
\* directories os.makedirs has still to create and those it found missing
Unit(key, dest) ==
    [key |-> key, dest |-> dest, st |-> "queued", outcome |-> "none", res |-> "none",
     started |-> 0, attempts |-> 0, todo |-> <<>>, missing |-> {}]

\* units a worker thread is executing
Running == {i \in 1..Len(futures) : futures[i].st \notin {"queued", "done"}}

AllDone == \A i \in 1..Len(futures) : futures[i].st = "done"

\* last element of a non-empty sequence
Last(s) == s[Len(s)]

\* the main thread leaves the page loop after the last object of the last page
AfterPage(next_page, end) == IF truncated THEN next_page ELSE end

(* ------------------------- main thread: download ----------------------- *)
\* main() up to the first listing call: validate the local directory, build
\* the downloader, parse the address, create the local directory, open the pool
DownloadMain ==
    /\ pc = "main"
    /\ mode = "download"
    /\ IF dest_arg \in local_files
       THEN /\ exit_code' = 1
            /\ pc' = "exit"
            /\ UNCHANGED <<prefix, bucket_name, local_dirs>>
       ELSE /\ prefix' = parse_s3_path(s3_path).prefix
            /\ bucket_name' = parse_s3_path(s3_path).bucket_name
            /\ local_dirs' = local_dirs \cup DirChain(dest_arg)
            /\ pc' = "page"
            /\ UNCHANGED exit_code
    /\ UNCHANGED <<inputs, objects, local_files, dest_prefix, listing, futures, joined,
                   counters, lock, exc, no_objects_printed, summary, list_calls,
                   listed, list_failed_at>>

\* one step of "for page in page_iterator" inside the pool's with block
DownloadPage(fails) ==
    /\ pc = "page"
    /\ mode = "download"
    /\ list_calls' = list_calls + 1
    /\ IF fails
       THEN /\ exc' = "ListingError"
            /\ list_failed_at' = <<"dispatch", page_no + 1>>
            /\ pc' = "shutdown"
            /\ UNCHANGED <<listing, listed, no_objects_printed>>
       ELSE LET resp == ListPage(objects, prefix, after)
            IN /\ page_no' = page_no + 1
               /\ listed' = listed + Len(resp.Contents)
               /\ truncated' = resp.IsTruncated
               /\ page' = resp.Contents
               /\ IF resp.Contents = <<>>
                  THEN /\ no_objects_printed' = TRUE
                       /\ after' = after
                       /\ pc' = IF resp.IsTruncated THEN "page" ELSE "join"
                  ELSE /\ after' = Last(resp.Contents)
                       /\ pc' = "obj"
                       /\ UNCHANGED no_objects_printed
               /\ UNCHANGED <<exc, list_failed_at>>
    /\ UNCHANGED <<inputs, objects, localfs, prefix, dest_prefix, bucket_name, futures, joined,
                   counters, lock, summary, exit_code>>

\* one step of "for obj in page['Contents']": count, then skip or submit
DownloadObject ==
    /\ pc = "obj"
    /\ mode = "download"
    /\ page # <<>>
    /\ LET key == Head(page)
           rel == relative_path(prefix, key)
       IN /\ total_files' = total_files + 1
          /\ futures' = IF DownloadSkips(prefix, key) THEN futures
                        ELSE Append(futures, Unit(key, PathJoin(dest_arg, rel)))
    /\ page' = Tail(page)
    /\ pc' = IF Tail(page) = <<>> THEN AfterPage("page", "join") ELSE "obj"
    /\ UNCHANGED <<inputs, objects, localfs, prefix, dest_prefix, bucket_name, after, truncated,
                   page_no, joined, downloaded_files, download_errors, copied_files,
                   copy_errors, lock, exc, output, list_calls, listed, list_failed_at>>

(* --------------------------- main thread: copy ------------------------- *)
\* mutant: the bucket check compares the source bucket with itself
BucketsDiffer_SelfCompare(source_bucket, dest_bucket) == source_bucket # source_bucket

\* "Ensure we're operating within the same bucket"
BucketsDiffer(source_bucket, dest_bucket) == source_bucket # dest_bucket

\* mutant: the early exit of an empty copy is missing
NoFilesToCopy_Never(total) == FALSE

\* "If there are no files to copy, exit early"
NoFilesToCopy(total) == total = 0

\* main() up to the first listing call: build the copier, parse both
\* addresses, refuse a cross-bucket copy
CopyMain ==
    /\ pc = "main"
    /\ mode = "copy"
    /\ LET src == parse_s3_path(s3_path)
           dst == parse_s3_path(dest_arg)
       IN IF BucketsDiffer(src.bucket_name, dst.bucket_name)
          THEN /\ exc' = "ValueError"
               /\ exit_code' = 1
               /\ pc' = "exit"
               /\ UNCHANGED <<prefix, dest_prefix, bucket_name, bucket_name>>
          ELSE /\ prefix' = src.prefix
               /\ bucket_name' = src.bucket_name
               /\ dest_prefix' = dst.prefix
               /\ pc' = "count_page"
               /\ UNCHANGED <<exc, exit_code>>
    /\ UNCHANGED <<inputs, objects, localfs, listing, futures, joined, counters, lock,
                   no_objects_printed, summary, list_calls, listed, list_failed_at>>

\* the end of the counting pass: return early, or reset the paginator
CountEnd(total) ==
    IF NoFilesToCopy(total)
    THEN /\ no_objects_printed' = TRUE
         /\ pc' = "print_summary"
         /\ UNCHANGED <<after, page_no>>
    ELSE /\ pc' = "page"
         /\ after' = <<>>
         /\ page_no' = 0
         /\ UNCHANGED no_objects_printed

\* one step of the counting pass's "for page in page_iterator"
CountPage(fails) ==
    /\ pc = "count_page"
    /\ mode = "copy"
    /\ list_calls' = list_calls + 1
    /\ IF fails
       THEN /\ exc' = "ListingError"
            /\ list_failed_at' = <<"count", page_no + 1>>
            /\ exit_code' = 1
            /\ pc' = "exit"
            /\ UNCHANGED <<listing, listed, no_objects_printed>>
       ELSE LET resp == ListPage(objects, prefix, after)
            IN /\ listed' = listed + Len(resp.Contents)
               /\ truncated' = resp.IsTruncated
               /\ page' = resp.Contents
               /\ IF resp.Contents = <<>>
                  THEN IF resp.IsTruncated
                       THEN /\ pc' = "count_page"
                            /\ page_no' = page_no + 1
                            /\ UNCHANGED <<after, no_objects_printed>>
                       ELSE CountEnd(total_files)
                  ELSE /\ after' = Last(resp.Contents)
                       /\ page_no' = page_no + 1
                       /\ pc' = "count_obj"
                       /\ UNCHANGED no_objects_printed
               /\ UNCHANGED <<exc, list_failed_at, exit_code>>
    /\ UNCHANGED <<inputs, objects, localfs, prefix, dest_prefix, bucket_name, futures, joined,
                   counters, lock, summary>>

\* one step of the counting pass's "for obj in page['Contents']"
CountObject ==
    /\ pc = "count_obj"
    /\ mode = "copy"
    /\ page # <<>>
    /\ LET key == Head(page)
           total == IF CopySkips(key) THEN total_files ELSE total_files + 1
       IN /\ total_files' = total
          /\ page' = Tail(page)
          /\ IF Tail(page) # <<>>
             THEN /\ pc' = "count_obj"
                  /\ UNCHANGED <<after, page_no, no_objects_printed>>
             ELSE IF truncated
             THEN /\ pc' = "count_page"
                  /\ UNCHANGED <<after, page_no, no_objects_printed>>
             ELSE CountEnd(total)
    /\ UNCHANGED <<inputs, objects, localfs, prefix, dest_prefix, bucket_name, truncated, futures,
                   joined, downloaded_files, download_errors, copied_files, copy_errors,
                   lock, exc, summary, exit_code, list_calls, listed, list_failed_at>>

\* one step of the dispatching pass's "for page in page_iterator"
CopyPage(fails) ==
    /\ pc = "page"
    /\ mode = "copy"
    /\ list_calls' = list_calls + 1
    /\ IF fails
       THEN /\ exc' = "ListingError"
            /\ list_failed_at' = <<"dispatch", page_no + 1>>
            /\ pc' = "shutdown"
            /\ UNCHANGED <<listing, listed>>
       ELSE LET resp == ListPage(objects, prefix, after)
            IN /\ page_no' = page_no + 1
               /\ listed' = listed + Len(resp.Contents)
               /\ truncated' = resp.IsTruncated
               /\ page' = resp.Contents
               /\ IF resp.Contents = <<>>
                  THEN /\ after' = after
                       /\ pc' = IF resp.IsTruncated THEN "page" ELSE "join"
                  ELSE /\ after' = Last(resp.Contents)
                       /\ pc' = "obj"
               /\ UNCHANGED <<exc, list_failed_at>>
    /\ UNCHANGED <<inputs, objects, localfs, prefix, dest_prefix, bucket_name, futures, joined,
                   counters, lock, output>>

\* one step of the dispatching pass's "for obj in page['Contents']"
CopyDispatchStep(new_total) ==
    /\ pc = "obj"
    /\ mode = "copy"
    /\ page # <<>>
    /\ LET source_key == Head(page)
           dest_key == dest_prefix \o relative_path(prefix, source_key)
       IN futures' = IF CopySkips(source_key) THEN futures
                     ELSE Append(futures, Unit(source_key, dest_key))
    /\ page' = Tail(page)
    /\ pc' = IF Tail(page) = <<>> THEN AfterPage("page", "join") ELSE "obj"
    /\ total_files' = new_total
    /\ UNCHANGED <<inputs, objects, localfs, prefix, dest_prefix, bucket_name, after, truncated,
                   page_no, joined, downloaded_files, download_errors, copied_files,
                   copy_errors, lock, exc, output, list_calls, listed, list_failed_at>>

\* mutant: the dispatching pass counts the objects again
CopyDispatchObject_Recount == CopyDispatchStep(total_files + 1)

\* the dispatching pass leaves total_files as the pre-scan set it
CopyDispatchObject == CopyDispatchStep(total_files)

(* ------------------------ main thread: join, exit ---------------------- *)
\* one step of "for future in futures: future.result()": result() blocks until
\* the unit is done and re-raises what the unit raised
Join ==
    /\ pc = "join"
    /\ IF joined = Len(futures)
       THEN /\ pc' = "shutdown"
            /\ UNCHANGED <<joined, exc>>
       ELSE /\ futures[joined + 1].st = "done"
            /\ IF futures[joined + 1].res = "raised"
               THEN /\ exc' = "UnitError"
                    /\ pc' = "shutdown"
                    /\ UNCHANGED joined
               ELSE /\ joined' = joined + 1
                    /\ UNCHANGED <<pc, exc>>
    /\ UNCHANGED <<inputs, objects, localfs, prefix, dest_prefix, bucket_name, listing, futures,
                   counters, lock, output, list_calls, listed, list_failed_at>>

\* mutant: the pool is shut down without waiting (shutdown(wait=False))
shutdown_nowait == TRUE

\* ThreadPoolExecutor.__exit__ is shutdown(wait=True): it returns when every
\* submitted unit has run
shutdown_wait == AllDone

\* mutant: main() swallows the exception and carries on to the summary
ExitCodeFor_Swallow(e) == 0

\* main(): "except Exception as e: ... sys.exit(1)"
ExitCodeFor(e) == IF e = "none" THEN 0 ELSE 1

\* leaving the with block, normally or with an exception in flight; an
\* exception reaches main()'s handler, which exits without a summary
Shutdown ==
    /\ pc = "shutdown"
    /\ shutdown_wait
    /\ IF ExitCodeFor(exc) = 0
       THEN /\ pc' = "print_summary"
            /\ UNCHANGED exit_code
       ELSE /\ exit_code' = ExitCodeFor(exc)
            /\ pc' = "exit"
    /\ UNCHANGED <<inputs, objects, localfs, prefix, dest_prefix, bucket_name, listing, futures,
                   joined, counters, lock, exc, no_objects_printed, summary,
                   list_calls, listed, list_failed_at>>

NoFilesProcessed == <<"No files processed">>

\* (succeeded / total * 100) printed with two decimals, as hundredths of a
\* percent; a tie rounds to even, as the formatting of an exact value does
Percent2(succeeded, total) ==
    LET q == (succeeded * 10000) \div total
        r == (succeeded * 10000) % total
    IN IF 2 * r > total \/ (2 * r = total /\ q % 2 = 1) THEN q + 1 ELSE q

\* mutant: the guard of the rate tests the numerator, not total_files
success_rate_GuardsNumerator(succeeded, total) ==
    IF succeeded > 0 THEN <<"%", Percent2(succeeded, total)>> ELSE NoFilesProcessed

\* the "Success Rate" line of print_summary
success_rate(succeeded, total) ==
    IF total > 0 THEN <<"%", Percent2(succeeded, total)>> ELSE NoFilesProcessed

\* print_summary, then main() returns
PrintSummary ==
    /\ pc = "print_summary"
    /\ LET succeeded == IF mode = "download" THEN downloaded_files ELSE copied_files
           failed == IF mode = "download" THEN download_errors ELSE copy_errors
       IN summary' = <<[total_files |-> total_files,
                        succeeded |-> succeeded,
                        failed |-> failed,
                        rate |-> success_rate(succeeded, total_files)]>>
    /\ exit_code' = 0
    /\ pc' = "exit"
    /\ UNCHANGED <<inputs, objects, localfs, prefix, dest_prefix, bucket_name, listing, futures,
                   joined, counters, lock, exc, no_objects_printed, list_calls,
                   listed, list_failed_at>>

(* ------------------------------- workers ------------------------------- *)
\* mutant: the pool admits one thread more than max_workers
WorkerFree_OffByOne == Cardinality(Running) <= max_workers

\* mutant: no pool thread ever takes a unit
WorkerFree_Never == FALSE

\* a pool thread is idle
WorkerFree == Cardinality(Running) < max_workers

\* the directories of a set, each after its ancestors
RECURSIVE TopDown(_)
TopDown(dirs) ==
    IF dirs = {} THEN <<>>
    ELSE LET top == CHOOSE d \in dirs : \A e \in dirs : Len(d) <= Len(e)
         IN <<top>> \o TopDown(dirs \ {top})

\* mutant: mkdir without exist_ok, failing on a directory that is there
MkdirFails_NoExistOk(d) == d \in local_files \/ d \in local_dirs

\* mkdir of one directory under exist_ok=True: an existing directory is
\* accepted, a regular file in its place raises FileExistsError
MkdirFails(d) == d \in local_files

\* a pool thread takes the oldest queued unit off the work queue; in download
\* mode os.makedirs first looks for the directories that do not exist yet
Start(i) ==
    /\ futures[i].st = "queued"
    /\ \A j \in 1..(i - 1) : futures[j].st # "queued"
    /\ WorkerFree
    /\ LET missing == IF mode = "download"
                      THEN DirChain(DirName(futures[i].dest)) \ local_dirs ELSE {}
       IN futures' = [futures EXCEPT ![i].st = IF mode = "download" THEN "makedirs" ELSE "copy",
                                     ![i].started = @ + 1,
                                     ![i].todo = TopDown(missing),
                                     ![i].missing = missing]
    /\ UNCHANGED <<inputs, objects, localfs, pc, prefix, dest_prefix, bucket_name, listing, joined,
                   counters, lock, exc, output, list_calls, listed, list_failed_at>>

\* download_file: os.makedirs(os.path.dirname(local_path), exist_ok=True),
\* one mkdir at a time from the topmost missing directory down to the parent
\* of local_path (the last mkdir is made also when nothing was missing);
\* other units run between two mkdirs
MakeDirs(i) ==
    /\ futures[i].st = "makedirs"
    /\ LET todo == futures[i].todo
           d == IF todo = <<>> THEN DirName(futures[i].dest) ELSE Head(todo)
       IN IF MkdirFails(d)
          THEN /\ futures' = [futures EXCEPT ![i].st = "done", ![i].res = "raised"]
               /\ UNCHANGED local_dirs
          ELSE /\ futures' = [futures EXCEPT
                                 ![i].st = IF Len(todo) <= 1 THEN "fetch" ELSE "makedirs",
                                 ![i].todo = IF todo = <<>> THEN <<>> ELSE Tail(todo)]
               /\ local_dirs' = local_dirs \cup {d}
    /\ UNCHANGED <<inputs, objects, local_files, pc, prefix, dest_prefix, bucket_name, listing,
                   joined, counters, lock, exc, output, list_calls, listed,
                   list_failed_at>>

\* download_file: self.s3_client.download_file(bucket_name, key, local_path);
\* only ClientError is caught, anything else leaves the unit as an exception
Fetch(i, out) ==
    /\ futures[i].st = "fetch"
    /\ out = "ok" => futures[i].key \in objects
    /\ IF out = "ClientError"
       THEN /\ futures' = [futures EXCEPT ![i].st = "counting", ![i].outcome = out,
                                             ![i].attempts = @ + 1]
            /\ UNCHANGED local_files
       ELSE IF out = "OtherError" \/ futures[i].dest \in local_dirs
       THEN /\ futures' = [futures EXCEPT ![i].st = "done", ![i].res = "raised",
                                             ![i].attempts = @ + 1]
            /\ UNCHANGED local_files
       ELSE /\ futures' = [futures EXCEPT ![i].st = "counting", ![i].outcome = out,
                                             ![i].attempts = @ + 1]
            /\ local_files' = local_files \cup {futures[i].dest}
    /\ UNCHANGED <<inputs, objects, local_dirs, pc, prefix, dest_prefix, bucket_name, listing,
                   joined, counters, lock, exc, output, list_calls, listed,
                   list_failed_at>>

\* copy_object: self.s3_client.copy_object(...) within the bucket; the store
\* refuses a missing source and a key longer than it accepts with a ClientError
CopyObject(i, out) ==
    /\ futures[i].st = "copy"
    /\ out = "ok" => futures[i].key \in objects /\ Len(futures[i].dest) <= MaxKeyLen
    /\ IF out = "OtherError"
       THEN /\ futures' = [futures EXCEPT ![i].st = "done", ![i].res = "raised",
                                             ![i].attempts = @ + 1]
            /\ UNCHANGED objects
       ELSE /\ futures' = [futures EXCEPT ![i].st = "counting", ![i].outcome = out,
                                             ![i].attempts = @ + 1]
            /\ objects' = IF out = "ok" THEN objects \cup {futures[i].dest} ELSE objects
    /\ UNCHANGED <<inputs, localfs, pc, prefix, dest_prefix, bucket_name, listing, joined, counters,
                   lock, exc, output, list_calls, listed, list_failed_at>>

\* "with self.lock:" entered
Acquire(i) ==
    /\ futures[i].st = "counting"
    /\ lock = 0
    /\ lock' = i
    /\ UNCHANGED <<inputs, objects, localfs, pc, prefix, dest_prefix, bucket_name, listing, futures,
                   joined, counters, exc, output, list_calls, listed, list_failed_at>>

\* mutant: the counter that is hit moves by two
Bump_Twice(counter, hit) == IF hit THEN counter + 2 ELSE counter

\* "self.copied_files += 1" and its three siblings: the counter the unit's
\* outcome selects moves by one, the others stay
Bump(counter, hit) == IF hit THEN counter + 1 ELSE counter

\* the increment under the lock, the lock's release, the progress line and
\* the unit's return value
Count(i) ==
    /\ futures[i].st = "counting"
    /\ lock = i
    /\ LET ok == futures[i].outcome = "ok"
           d == mode = "download"
       IN /\ downloaded_files' = Bump(downloaded_files, d /\ ok)
          /\ download_errors' = Bump(download_errors, d /\ ~ok)
          /\ copied_files' = Bump(copied_files, ~d /\ ok)
          /\ copy_errors' = Bump(copy_errors, ~d /\ ~ok)
          /\ futures' = [futures EXCEPT ![i].st = "done",
                                        ![i].res = IF ok THEN "True" ELSE "False"]
    /\ lock' = 0
    /\ UNCHANGED <<inputs, objects, localfs, pc, prefix, dest_prefix, bucket_name, listing, joined,
                   total_files, exc, output, list_calls, listed, list_failed_at>>

(* ---------------------------- other clients --------------------------- *)
\* another client of the bucket puts or deletes an object while the run is
\* listing (a later change can only make a transfer fail, which Outcomes covers)
External(key) ==
    /\ pc \in {"count_page", "count_obj", "page", "obj"}
    /\ external_ops < MaxExternalOps
    /\ external_ops' = external_ops + 1
    /\ objects' = IF key \in objects THEN objects \ {key} ELSE objects \cup {key}
    /\ UNCHANGED <<mode, s3_path, dest_arg, max_workers, initial_objects, localfs,
                   pc, prefix, dest_prefix, bucket_name, listing, futures, joined, counters, lock, exc, output,
                   list_calls, listed, list_failed_at>>

(* ---------------------------- specification ---------------------------- *)
Next ==
    \/ DownloadMain
    \/ \E fails \in BOOLEAN : DownloadPage(fails)
    \/ DownloadObject
    \/ CopyMain
    \/ \E fails \in BOOLEAN : CountPage(fails)
    \/ CountObject
    \/ \E fails \in BOOLEAN : CopyPage(fails)
    \/ CopyDispatchObject
    \/ Join
    \/ Shutdown
    \/ PrintSummary
    \/ \E i \in 1..Len(futures) : Start(i)
    \/ \E i \in 1..Len(futures) : MakeDirs(i)
    \/ \E i \in 1..Len(futures), out \in Outcomes : Fetch(i, out)
    \/ \E i \in 1..Len(futures), out \in Outcomes : CopyObject(i, out)
    \/ \E i \in 1..Len(futures) : Acquire(i)
    \/ \E i \in 1..Len(futures) : Count(i)
    \/ \E key \in ExternalKeys : External(key)

Spec == Init /\ [][Next]_vars

(* -------------------------------- claims -------------------------------- *)
Succeeded == IF mode = "download" THEN downloaded_files ELSE copied_files
Failed == IF mode = "download" THEN download_errors ELSE copy_errors

\* units that ended in failure, counted or not
FailedUnits == {i \in 1..Len(futures) : futures[i].res \in {"False", "raised"}}

\* the with block of the pool has been left
PoolLeft == pc \in {"print_summary", "exit"}

\* C1: once the pool has been joined, succeeded + failed equals the number of
\* submitted units, whatever the outcome of each unit was.
C1_CountersMatchUnits == PoolLeft => Succeeded + Failed = Len(futures)

\* C2: when exactly one submitted unit fails, the run ends with failed = 1,
\* succeeded = N - 1, every unit run, the summary printed and exit code 0.
C2_OneFailureIsNotFatal ==
    (pc = "exit" /\ list_failed_at = <<>> /\ Cardinality(FailedUnits) = 1)
        => /\ AllDone
           /\ Failed = 1
           /\ Succeeded = Len(futures) - 1
           /\ summary # <<>>
           /\ exit_code = 0

\* C3: no error of a unit reaches the join loop as an exception: every unit
\* returns True or False.
C3_UnitErrorsAreCaught ==
    /\ exc # "UnitError"
    /\ \A i \in 1..Len(futures) : futures[i].res # "raised"

\* C4: the dispatch call has returned, or the summary has been printed, only
\* when every submitted unit has completed.
C4_JoinBarrier == (PoolLeft \/ summary # <<>>) => AllDone

\* C4 witness: a summary printed after several units ran, one of them failing.
C4_Witness ==
    /\ summary # <<>>
    /\ Len(futures) >= 2
    /\ \E i \in 1..Len(futures) : futures[i].res = "False"

\* C5: at most max_workers units are executing in any state.
C5_BoundedConcurrency == Cardinality(Running) <= max_workers

\* C5 witness: the pool is full while a submitted unit waits in the queue.
C5_Witness ==
    /\ Cardinality(Running) = max_workers
    /\ \E i \in 1..Len(futures) : futures[i].st = "queued"

\* the request whose source and destination buckets differ
CrossBucketRequest == mode = "copy" /\ s3_path = Arg_s3_x_a /\ dest_arg = Arg_s3_y_b

\* C6: a cross-bucket copy request ends at once with an error and exit code 1:
\* no listing call, no unit, no counter touched, no summary.
C6_CrossBucketAborts ==
    (CrossBucketRequest /\ pc # "main")
        => /\ pc = "exit"
           /\ exit_code = 1
           /\ exc = "ValueError"
           /\ list_calls = 0
           /\ futures = <<>>
           /\ total_files = 0 /\ copied_files = 0 /\ copy_errors = 0
           /\ summary = <<>>

\* C6 witness: the cross-bucket request has been refused.
C6_Witness == CrossBucketRequest /\ pc = "exit"

C8_TotalCountsUnits ==
    (mode = "download" /\ summary # <<>>) => total_files = Len(futures)

\* C9: when the listing returns no object, the run dispatches nothing, prints
\* "No objects found", leaves total_files at 0, prints the "No files
\* processed" summary and exits with code 0.
C9_EmptyListing ==
    (pc = "exit" /\ list_calls > 0 /\ list_failed_at = <<>> /\ listed = 0)
        => /\ futures = <<>>
           /\ no_objects_printed
           /\ total_files = 0
           /\ summary # <<>>
           /\ summary[1].total_files = 0
           /\ summary[1].rate = NoFilesProcessed
           /\ exit_code = 0

\* C9 witness: a copy run over an empty listing has ended.
C9_Witness ==
    /\ mode = "copy"
    /\ pc = "exit"
    /\ list_calls > 0
    /\ list_failed_at = <<>>
    /\ listed = 0

\* C10: the summary shows "No files processed" exactly when total_files is 0,
\* and otherwise succeeded / total_files * 100 (to two decimals) of the
\* counters as they stand once every unit has completed.
C10_SuccessRate ==
    summary # <<>>
        => /\ AllDone
           /\ summary[1].total_files = total_files
           /\ summary[1].succeeded = Succeeded
           /\ summary[1].failed = Failed
           /\ summary[1].rate = NoFilesProcessed <=> total_files = 0
           /\ total_files > 0
                 => /\ summary[1].rate[1] = "%"
                    /\ 2 * (summary[1].rate[2] * total_files - Succeeded * 10000)
                          <= total_files
                    /\ 2 * (Succeeded * 10000 - summary[1].rate[2] * total_files)
                          <= total_files

\* C10 witness: a summary with a rate strictly between 0 and 100 percent.
C10_Witness ==
    /\ summary # <<>>
    /\ Succeeded > 0
    /\ Succeeded < total_files

\* a step of either page loop that plans the first object of the page
PlanStep == pc = "obj" /\ page # <<>> /\ page' = Tail(page)

\* the object is a directory marker, or nothing is left of its key once the
\* prefix is removed
MarkerOrEmptyRelative(key) == EndsWithSlash(key) \/ Len(key) <= Len(prefix)

\* C11: planning an object whose key ends with '/' or whose relative path is
\* empty adds no unit, planning any other object adds exactly one unit (for
\* that key), nothing else adds units, and the units never outnumber the
\* listed objects.
C11_OneUnitPerObject ==
    /\ [](Len(futures) <= listed)
    /\ [][/\ Len(futures') # Len(futures) => PlanStep
          /\ PlanStep =>
                IF MarkerOrEmptyRelative(Head(page))
                THEN futures' = futures
                ELSE /\ Len(futures') = Len(futures) + 1
                     /\ SubSeq(futures', 1, Len(futures)) = futures
                     /\ futures'[Len(futures')].key = Head(page)]_vars

\* C11 witness: a download listing of three objects, one of them a directory
\* marker, has been planned into two units.
C11_Witness ==
    /\ mode = "download"
    /\ pc = "join"
    /\ listed = 3
    /\ Len(futures) = 2

(* ------------------- _parse_s3_path on its own (C12) -------------------- *)
\* characters of the addresses explored
AddrChars == {"x", "a", "/"}

\* what follows the scheme: every string of 1..MaxAddrLen characters
AddrBodies == UNION {[1..n -> AddrChars] : n \in 1..MaxAddrLen}

\* the addresses explored, with the scheme and without it
Addresses == {S3Scheme \o b : b \in AddrBodies} \cup AddrBodies

\* the address "s3://bucket-name/prefix" of a parsed pair (the format the
\* docstring of _parse_s3_path gives)
Rebuild(bucket, pfx) == S3Scheme \o bucket \o <<Slash>> \o pfx

InitParse ==
    /\ mode = "parse"
    /\ s3_path \in Addresses
    /\ dest_arg = <<>>
    /\ max_workers = 1
    /\ objects = {}
    /\ local_dirs = {}
    /\ local_files = {}
    /\ pc = "parse"
    /\ prefix = <<>>
    /\ dest_prefix = <<>>
    /\ page = <<>>
    /\ after = <<>>
    /\ truncated = FALSE
    /\ futures = <<>>
    /\ joined = 0
    /\ total_files = 0
    /\ downloaded_files = 0
    /\ download_errors = 0
    /\ copied_files = 0
    /\ copy_errors = 0
    /\ lock = 0
    /\ exc = "none"
    /\ no_objects_printed = FALSE
    /\ summary = <<>>
    /\ exit_code = -1
    /\ list_calls = 0
    /\ page_no = 0
    /\ listed = 0
    /\ list_failed_at = <<>>
    /\ external_ops = 0
    /\ bucket_name = <<>>
    /\ initial_objects = {}

\* bucket_name, prefix = self._parse_s3_path(s3_path)
ParseAddress ==
    /\ pc = "parse"
    /\ bucket_name' = parse_s3_path(s3_path).bucket_name
    /\ prefix' = parse_s3_path(s3_path).prefix
    /\ pc' = "parsed"
    /\ UNCHANGED <<inputs, objects, localfs, dest_prefix, listing, futures, joined,
                   counters, lock, exc, output, list_calls, listed, list_failed_at>>

\* the parsed pair written back as an address (kept in dest_arg) and parsed again
ReparseAddress ==
    /\ pc = "parsed"
    /\ dest_arg' = Rebuild(bucket_name, prefix)
    /\ bucket_name' = parse_s3_path(dest_arg').bucket_name
    /\ prefix' = parse_s3_path(dest_arg').prefix
    /\ pc' = "reparsed"
    /\ UNCHANGED <<mode, s3_path, max_workers, external_ops, initial_objects, objects,
                   localfs, dest_prefix, listing, futures, joined, counters, lock, exc,
                   output, list_calls, listed, list_failed_at>>

NextParse == ParseAddress \/ ReparseAddress

SpecParse == InitParse /\ [][NextParse]_vars

\* C12: the prefix _parse_s3_path returns is empty or ends with '/', and
\* parsing the address rebuilt from the returned pair returns the same pair.
C12_ParseIdempotent ==
    /\ [](pc \in {"parsed", "reparsed"} => prefix = <<>> \/ prefix[Len(prefix)] = "/")
    /\ [][pc = "parsed" => bucket_name' = bucket_name /\ prefix' = prefix]_vars

\* C12 witness: an address with a scheme and a prefix lacking its final '/'
\* has been parsed, rebuilt with the '/' added, and parsed again.
C12_Witness ==
    /\ pc = "reparsed"
    /\ s3_path[1] = "s"
    /\ s3_path[Len(s3_path)] # "/"
    /\ prefix # <<>>
    /\ dest_arg # s3_path


\* the key of a unit with the first Len(prefix) characters removed
KeyMinusPrefix(key) == SubSeq(key, Len(prefix) + 1, Len(key))

\* C13: for every dispatched unit whose key starts with the source prefix,
\* the prefix followed by the key's remainder is the key, the destination key
\* of a copy unit is the destination prefix followed by that remainder, and
\* the local path of a download unit is os.path.join of the local directory
\* and that remainder.
C13_RelativePath ==
    \A i \in 1..Len(futures) :
        LET key == futures[i].key
            rel == KeyMinusPrefix(key)
        IN StartsWith(key, prefix) =>
              /\ prefix \o rel = key
              /\ mode = "copy" => futures[i].dest = dest_prefix \o rel
              /\ mode = "download" =>
                    /\ futures[i].dest = PathJoin(dest_arg, rel)
                    /\ rel[1] # Slash => futures[i].dest = dest_arg \o <<Slash>> \o rel

\* C13 witness: a copy from the prefix a/ to the prefix b/ has dispatched the
\* unit of a/f/g with the destination key b/f/g.
C13_Witness ==
    /\ mode = "copy"
    /\ prefix = <<"a", "/">>
    /\ \E i \in 1..Len(futures) :
          /\ futures[i].key = <<"a", "/", "f", "/", "g">>
          /\ futures[i].dest = <<"b", "/", "f", "/", "g">>


\* C14: in copy mode total_files is the count of the pre-scan pass: no unit
\* is submitted while the pre-scan is still counting, and once a unit has been
\* submitted no step (dispatch, worker success or failure, join, summary)
\* changes total_files.
C14_TotalFilesFrozen ==
    /\ [](mode = "copy" /\ pc \in {"main", "count_page", "count_obj"} => futures = <<>>)
    /\ [][mode = "copy" /\ (futures # <<>> \/ futures' # <<>>) =>
              total_files' = total_files]_vars

\* C14 witness: a copy run has printed its summary after both a copied and a
\* failed unit, with the total the pre-scan counted.
C14_Witness ==
    /\ mode = "copy"
    /\ pc = "exit"
    /\ summary # <<>>
    /\ copied_files >= 1
    /\ copy_errors >= 1
    /\ total_files = 2


\* C15: every unit is taken from the queue once and its fetch or copy is
\* issued once, and once the pool has been left every unit that failed has
\* been recorded in the failed counter.
C15_NoRetry ==
    /\ \A i \in 1..Len(futures) : futures[i].started <= 1 /\ futures[i].attempts <= 1
    /\ PoolLeft =>
          /\ \A i \in 1..Len(futures) : futures[i].started = 1 /\ futures[i].attempts = 1
          /\ Failed = Cardinality(FailedUnits)


\* the directories os.makedirs has to provide for a unit's local path
ParentDirs(i) == DirChain(DirName(futures[i].dest))

\* C16: in download mode a unit that has reached its fetch finds the parent
\* directory of its local path and every ancestor in place, whatever the
\* sibling units did meanwhile, and a unit fails in os.makedirs only where a
\* regular file is in the way, never because a directory is already there.
C16_ParentBeforeFetch ==
    mode = "download" =>
        \A i \in 1..Len(futures) :
            /\ (futures[i].st \in {"fetch", "counting"} \/ futures[i].attempts >= 1) =>
                  ParentDirs(i) \subseteq local_dirs
            /\ (futures[i].res = "raised" /\ futures[i].attempts = 0) =>
                  ParentDirs(i) \cap local_files # {}

\* C16 witness: two units that both found the same directory missing, so
\* that both were inside os.makedirs for it at the same time, are both at
\* their fetch.
C16_Witness ==
    /\ mode = "download"
    /\ \E i, j \in 1..Len(futures) :
          /\ i # j
          /\ futures[i].st = "fetch"
          /\ futures[j].st = "fetch"
          /\ futures[i].missing \cap futures[j].missing # {}


(* ------------------------ termination (C17) ----------------------------- *)
\* the buckets termination is explored on: two files and a directory marker
\* under a/ (two pages), a file and a file below a directory of its name, and
\* an empty bucket
FairBuckets == {{Key_a_f, Key_a_g, Key_a_s}, {Key_a_f, Key_a_f_g}, {}}

InitFair == Init /\ objects \in FairBuckets

\* the main thread and the pool threads are scheduled fairly: a step that
\* stays possible is eventually taken (every store call returns)
FairSpec == InitFair /\ [][Next]_vars /\ WF_vars(Next)

C18_CountersWithinTotal ==
    mode = "copy" =>
        /\ copied_files + copy_errors <= total_files
        /\ summary # <<>> => copied_files + copy_errors = total_files

\* C18 amended: in copy mode copied_files + copy_errors never exceeds the
\* number of units the dispatching pass submitted and equals it once the join
\* loop has completed; it equals total_files when in addition the bucket did
\* not change between the two passes (no other client changed it and the
\* destination prefix is not under the source prefix).
C18_CountersWithinUnits ==
    mode = "copy" =>
        /\ copied_files + copy_errors <= Len(futures)
        /\ summary # <<>> => copied_files + copy_errors = Len(futures)
        /\ (summary # <<>> /\ external_ops = 0 /\ ~StartsWith(dest_prefix, prefix)) =>
              copied_files + copy_errors = total_files

\* C18 witness: another client changed the bucket during the listing passes
\* and the copy run printed a summary whose counters differ from total_files.
C18_Witness ==
    /\ mode = "copy"
    /\ summary # <<>>
    /\ external_ops = 1
    /\ Len(futures) >= 1
    /\ copied_files + copy_errors # total_files


\* C19: in copy mode the source key of every dispatched unit is an object
\* the bucket held when the run began (or one another client put meanwhile),
\* never an object a worker of the run wrote.
C19_SourcesExistedAtStart ==
    mode = "copy" =>
        \A i \in 1..Len(futures) : futures[i].key \in initial_objects \cup ExternalKeys

====
